---- MODULE Spec2Model ----
(***************************************************************************)
(* Runtime payload cache for ISR-enabled routes.                           *)
(*                                                                         *)
(* Two plugins cooperate on every request of the render handler:           *)
(*   - the Nitro plugin (payload-cache): hook render:before looks a        *)
(*     _payload.json request up in the store and, on a valid hit, sets     *)
(*     ctx.response; hook render:response schedules the store write;       *)
(*   - the Nuxt plugin (payload-cache.server): hook app:rendered           *)
(*     serialises the payload and stashes it on event.context.             *)
(*                                                                         *)
(* A path is a sequence of tokens: "/", "?", "_payload.json" and plain     *)
(* segment tokens, none of which contains "/" or "?".  Time is Date.now()  *)
(* in milliseconds.                                                        *)
(***************************************************************************)
EXTENDS Integers, Sequences, FiniteSets, TLC

VARIABLES
  clock,      \* Date.now(), milliseconds
  store,      \* useStorage('payload-cache'): function key -> CachedPayload
  written,    \* history: key -> who stored store[key] (buildId of the process, kind of request)
  req,        \* the requests in flight, one per slot (H3 event + render ctx)
  sent,       \* the request whose handler returned in the last step, as it returned,
              \* and the payload render:response found stashed on its context
  pending,    \* storage.setItem promises handed to event.waitUntil, not yet settled
  settled,    \* the write that settled in the last step, and how
  probe       \* the input and results of the key-derivation runs (KeySpec only)

vars == <<clock, store, written, req, sent, pending, settled, probe>>

-----------------------------------------------------------------------------
(* Bounds of the model *)

NumSlots == 2          \* requests in flight at the same time
MaxSegs  == 2          \* segments of a probed route path
MaxQuery == 2          \* tokens of a probed query string (after the "?")
MaxPath  == 4          \* tokens of an arbitrary request path

(* Program constants *)

PAYLOAD_CACHE_TTL == 60
PAYLOAD_CACHE_STALE_TTL == PAYLOAD_CACHE_TTL * 2

-----------------------------------------------------------------------------
(* Paths *)

PJ == "_payload.json"

Min(S) == CHOOSE x \in S : \A y \in S : x <= y
Max(S) == CHOOSE x \in S : \A y \in S : x >= y

Positions(s, t) == {i \in 1..Len(s) : s[i] = t}

\* url.replace(/\?.*$/, ''): everything from the first "?" on is removed
StripQuery(url) ==
  IF Positions(url, "?") = {} THEN url
  ELSE SubSeq(url, 1, Min(Positions(url, "?")) - 1)

\* /^[^?]*\/_payload\.json(?:\?.*)?$/.test(path)
PAYLOAD_URL_RE(path) ==
  \E i \in 1..(Len(path) - 1) :
     /\ \A j \in 1..(i - 1) : path[j] # "?"
     /\ path[i] = "/"
     /\ path[i + 1] = PJ
     /\ (i + 1 = Len(path) \/ path[i + 2] = "?")

\* withoutQuery.substring(0, withoutQuery.lastIndexOf('/')) || '/'
getRouteFromPayloadUrl(url) ==
  LET withoutQuery == StripQuery(url)
      slashes      == Positions(withoutQuery, "/")
      cut          == IF slashes = {} THEN << >>
                      ELSE SubSeq(withoutQuery, 1, Max(slashes) - 1)
  IN  IF cut = << >> THEN <<"/">> ELSE cut

\* the trailing slash is kept
HtmlRoutePath_KeepSlash(path) == StripQuery(path)

\* pathWithoutQuery === '/' ? '/' : pathWithoutQuery.replace(/\/$/, '')
HtmlRoutePath(path) ==
  LET pathWithoutQuery == StripQuery(path)
      n                == Len(pathWithoutQuery)
  IN  IF pathWithoutQuery = <<"/">> THEN <<"/">>
      ELSE IF n > 0 /\ pathWithoutQuery[n] = "/" THEN SubSeq(pathWithoutQuery, 1, n - 1)
      ELSE pathWithoutQuery

\* `${buildId}:${routePath}`
getCacheKey(buildId, routePath) == <<buildId, ":">> \o routePath

\* getRouteRules(event): the rules of the route the path matches; the routes
\* under /a have an isr rule, the others have none
isISRRoute(path) == Len(path) >= 2 /\ path[1] = "/" /\ path[2] = "a"

-----------------------------------------------------------------------------
(* Values *)

Slots    == 1..NumSlots
BuildIds == {"B1", "B2"}
Statuses == {0, 200, 400}   \* 0: the response carries no statusCode

JsonHeaders == "application/json;charset=utf-8 | x-powered-by: Nuxt"
HtmlHeaders == "text/html;charset=utf-8"
NoHeaders   == "no content-type"

\* the request paths of the protocol runs
ReqPaths ==
  { <<"/", "a", "/", "?", "q">>,
    <<"/", "a", "/", PJ, "?", "q">>,
    <<"/", "b">>,
    <<"/", "b", "/", PJ>> }

\* the request paths of the runs with two deployments
DeployPaths ==
  { <<"/", "a">>,
    <<"/", "a", "/", PJ>> }

\* the instants (ms) at which something happens: 0, TTL + 1 s, 2 x TTL, 125 s
Instants == {0, 61000, 120000, 125000}

NoEntry    == [none |-> "entry"]
NoResponse == [none |-> "response"]
NoStash    == [none |-> "stash"]
NoPath     == << >>
NoSent     == [none |-> "sent"]
NoWrite    == [none |-> "write"]

Idle ==
  [pc |-> "idle", path |-> NoPath, buildId |-> "B1", la |-> "none",
   rendered |-> FALSE, response |-> NoResponse, stash |-> NoStash]

getItem(key) == IF key \in DOMAIN store THEN store[key] ELSE NoEntry

Init ==
  /\ clock = 0
  /\ store = << >>
  /\ written = << >>
  /\ req = [r \in Slots |-> Idle]
  /\ sent = NoSent
  /\ pending = {}
  /\ settled = NoWrite
  /\ probe = << >>

-----------------------------------------------------------------------------
(* The Nuxt plugin: hook app:rendered (the Serializer) *)

Data == {"none", "empty", "d1"}   \* ssrContext.payload.data: undefined, {}, non-empty

\* the ssrContext the render hands to app:rendered; on the server ssrContext
\* and ssrContext.event are always there
SsrOk == [noSSR |-> FALSE, error |-> FALSE, payloadError |-> FALSE, data |-> "d1",
          serializable |-> TRUE]

\* one context for each way through the hook
SsrContexts ==
  { SsrOk,
    [SsrOk EXCEPT !.noSSR = TRUE],
    [SsrOk EXCEPT !.error = TRUE],
    [SsrOk EXCEPT !.payloadError = TRUE],
    [SsrOk EXCEPT !.data = "none"],
    [SsrOk EXCEPT !.data = "empty"],
    [SsrOk EXCEPT !.serializable = FALSE] }

\* what a serialized payload holds: the data of a server render that ended
\* well ("d1", or "empty" when there is none), or the mark of a render with
\* server rendering disabled or ended in an error state
PayloadState(ssr) ==
  IF ssr.noSSR THEN "noSSR"
  ELSE IF ssr.error \/ ssr.payloadError THEN "error"
  ELSE IF ssr.data = "none" \/ ssr.data = "empty" THEN "empty"
  ELSE "d1"

\* stringify({data, prerenderedAt}, reducers)
stringify(ssr, now) ==
  [kind |-> "payload", data |-> PayloadState(ssr), at |-> now]

\* the body of the hook: the value of event.context._cachedPayloadResponse after it
AppRendered(ssr, now) ==
  IF ssr.noSSR \/ ssr.error \/ ssr.payloadError THEN NoStash
  ELSE IF ssr.data = "none" \/ ssr.data = "empty" THEN NoStash
  ELSE IF ~ssr.serializable THEN NoStash
  ELSE [body |-> stringify(ssr, now), statusCode |-> 200, headers |-> JsonHeaders]

-----------------------------------------------------------------------------
(* The Nitro plugin: render:before (Phase A), render:response (Phase B) *)

\* the nominal TTL is applied, without the grace period
TooOld_Ttl(cachedAt, now) == (now - cachedAt) > PAYLOAD_CACHE_TTL * 1000

\* age = (Date.now() - cached.cachedAt) / 1000; age > PAYLOAD_CACHE_STALE_TTL
TooOld(cachedAt, now) == (now - cachedAt) > PAYLOAD_CACHE_STALE_TTL * 1000

\* the age of the entry is not looked at
LookupOutcome_NoTtl(rejected, cached, buildId, now) ==
  IF rejected THEN "error"
  ELSE IF cached = NoEntry THEN "miss"
  ELSE IF cached.buildId # buildId THEN "miss"
  ELSE "hit"

\* the try block of render:before after the await: which way the hook leaves
LookupOutcome(rejected, cached, buildId, now) ==
  IF rejected THEN "error"
  ELSE IF cached = NoEntry THEN "miss"
  ELSE IF cached.buildId # buildId THEN "miss"
  ELSE IF TooOld(cached.cachedAt, now) THEN "miss"
  ELSE "hit"

\* the headers of the entry are not passed on
HitResponse_NoHeaders(cached) ==
  [body |-> cached.body, statusCode |-> cached.statusCode, statusMessage |-> "OK",
   headers |-> NoHeaders]

\* ctx.response = { body, statusCode, statusMessage: 'OK', headers }
HitResponse(cached) ==
  [body |-> cached.body, statusCode |-> cached.statusCode, statusMessage |-> "OK",
   headers |-> cached.headers]

\* the status 400 itself is let through
StatusCacheable_Above(statusCode) == ~(statusCode = 0 \/ statusCode > 400)

\* !(!response.statusCode || response.statusCode >= 400)
StatusCacheable(statusCode) == ~(statusCode = 0 \/ statusCode >= 400)

\* the type of the body is not looked at
IsString_Any(body) == TRUE

\* typeof response.body === 'string'
IsString(body) == body.kind # "binary"

\* response.headers?.['content-type']?.includes('text/html')
isHtmlResponse(response) == response.headers = HtmlHeaders

\* key and entry carry an id that is the same for every deployment
cachePayload_OneId(buildId, routePath, payload, now) ==
  [key   |-> getCacheKey("B1", routePath),
   entry |-> [body |-> payload.body, statusCode |-> payload.statusCode,
              headers |-> payload.headers, cachedAt |-> now, buildId |-> "B1"]]

\* cachePayload: the key and the entry of the setItem handed to event.waitUntil
cachePayload(buildId, routePath, payload, now) ==
  [key   |-> getCacheKey(buildId, routePath),
   entry |-> [body |-> payload.body, statusCode |-> payload.statusCode,
              headers |-> payload.headers, cachedAt |-> now, buildId |-> buildId]]

\* the route rules are not asked
ConsumesStash_AnyRoute(q) ==
  /\ StatusCacheable(q.response.statusCode)
  /\ ~PAYLOAD_URL_RE(q.path)
  /\ isHtmlResponse(q.response)
  /\ q.stash # NoStash

\* render:response reaches the stashed payload of an HTML render
ConsumesStash(q) ==
  /\ StatusCacheable(q.response.statusCode)
  /\ ~PAYLOAD_URL_RE(q.path)
  /\ isHtmlResponse(q.response)
  /\ isISRRoute(q.path)
  /\ q.stash # NoStash

\* render:response: the writes the hook schedules for the request in state q
ResponseWrites(q, now) ==
  IF ~StatusCacheable(q.response.statusCode) THEN {}
  ELSE IF PAYLOAD_URL_RE(q.path)
  THEN IF ~IsString(q.response.body) THEN {}
       ELSE {cachePayload(q.buildId, getRouteFromPayloadUrl(q.path),
                          [body |-> q.response.body,
                           statusCode |-> q.response.statusCode,
                           headers |-> JsonHeaders], now)}
  ELSE IF ConsumesStash(q)
  THEN {cachePayload(q.buildId, HtmlRoutePath(q.path), q.stash, now)}
  ELSE {}

\* the stashed payload is left on the context
StashAfterResponse_Keep(q) == q.stash

\* render:response: event.context._cachedPayloadResponse after the hook
StashAfterResponse(q) == IF ConsumesStash(q) THEN NoStash ELSE q.stash

\* the request after render:response: the handler returns ctx.response
\* without awaiting the write
Responded(q) == [q EXCEPT !.pc = "done", !.stash = StashAfterResponse(q)]

-----------------------------------------------------------------------------
(* The render handler, from one suspension point to the next *)

CacheKeyOf(q) == getCacheKey(q.buildId, getRouteFromPayloadUrl(q.path))

IdleSlots == {r \in Slots : req[r].pc = "idle"}

\* the slot of a request whose handler has returned: it lives on until its
\* waitUntil promises have settled
Waiting == [Idle EXCEPT !.pc = "done"]

\* the store is read for every request
RenderBefore_AlwaysLooks(r, path, buildId) ==
  /\ IdleSlots # {}
  /\ r = Min(IdleSlots)
  /\ req' = [req EXCEPT ![r] = [Idle EXCEPT !.pc = "lookup", !.path = path,
                                           !.buildId = buildId]]
  /\ sent' = NoSent
  /\ settled' = NoWrite
  /\ UNCHANGED <<clock, store, written, pending, probe>>

\* a request enters the handler: render:before up to its await
RenderBefore(r, path, buildId) ==
  /\ IdleSlots # {}
  /\ r = Min(IdleSlots)
  /\ req' = [req EXCEPT ![r] =
               [Idle EXCEPT !.pc = IF PAYLOAD_URL_RE(path) THEN "lookup" ELSE "render",
                            !.path = path,
                            !.buildId = buildId]]
  /\ sent' = NoSent
  /\ settled' = NoWrite
  /\ UNCHANGED <<clock, store, written, pending, probe>>

\* without the catch a rejected getItem fails the request
Looked_NoCatch(q, rejected, cached, now) ==
  IF rejected THEN [q EXCEPT !.pc = "failed", !.la = "error"]
  ELSE IF LookupOutcome(rejected, cached, q.buildId, now) = "hit"
  THEN [q EXCEPT !.la = "hit", !.response = HitResponse(cached)]
  ELSE [q EXCEPT !.pc = "render", !.la = "miss"]

\* the request after storage.getItem has settled and render:before has ended
Looked(q, rejected, cached, now) ==
  LET outcome == LookupOutcome(rejected, cached, q.buildId, now)
  IN  IF outcome = "hit"
      THEN [q EXCEPT !.la = "hit", !.response = HitResponse(cached)]
      ELSE [q EXCEPT !.pc = "render", !.la = outcome]

\* which kind of request schedules a write (history)
Origin(q) == IF PAYLOAD_URL_RE(q.path) THEN "payload" ELSE "html"

\* the promises render:response hands to event.waitUntil for request r in state q
Scheduled(r, q) ==
  {[key |-> w.key, entry |-> w.entry, by |-> q.buildId, from |-> Origin(q), req |-> r] :
     w \in ResponseWrites(q, clock)}

\* the write is awaited: the response is held back while it is pending
Return_Awaits(r, q) ==
  /\ pending' = pending \cup Scheduled(r, q)
  /\ req' = [req EXCEPT ![r] = IF Scheduled(r, q) = {} THEN Idle ELSE Waiting]
  /\ sent' = IF Scheduled(r, q) = {}
             THEN [slot |-> r, q |-> Responded(q), stashed |-> q.stash]
             ELSE NoSent
  /\ settled' = NoWrite

\* render:response runs for request r in state q and the handler returns
\* ctx.response; the write is not awaited
Return(r, q) ==
  /\ pending' = pending \cup Scheduled(r, q)
  /\ req' = [req EXCEPT ![r] = IF Scheduled(r, q) = {} THEN Idle ELSE Waiting]
  /\ sent' = [slot |-> r, q |-> Responded(q), stashed |-> q.stash]
  /\ settled' = NoWrite

\* storage.getItem settles; on a hit ctx.response is set, the render is
\* skipped and render:response runs on the response
RenderBeforeResume(r, rejected) ==
  /\ req[r].pc = "lookup"
  /\ \E q \in {Looked(req[r], rejected, getItem(CacheKeyOf(req[r])), clock)} :
       IF q.la = "hit"
       THEN Return(r, q)
       ELSE /\ req' = [req EXCEPT ![r] = q]
            /\ sent' = NoSent
            /\ settled' = NoWrite
            /\ pending' = pending
  /\ UNCHANGED <<clock, store, written, probe>>

BinaryBody == [kind |-> "binary", data |-> "none", at |-> 0]
HtmlBody   == [kind |-> "html", data |-> "none", at |-> 0]

\* what the render returns: the payload response for a _payload.json
\* request, the page otherwise
RenderedResponse(path, ssr, statusCode, isString, htmlType, now) ==
  IF PAYLOAD_URL_RE(path)
  THEN [body |-> IF isString THEN stringify(ssr, now) ELSE BinaryBody,
        statusCode |-> statusCode, statusMessage |-> "", headers |-> JsonHeaders]
  ELSE [body |-> HtmlBody,
        statusCode |-> statusCode, statusMessage |-> "",
        headers |-> IF htmlType THEN HtmlHeaders ELSE NoHeaders]

\* the request after ctx.render, app:rendered included
Rendered(q, ssr, statusCode, isString, htmlType, now) ==
  [q EXCEPT !.rendered = TRUE,
            !.stash = AppRendered(ssr, now),
            !.response = RenderedResponse(q.path, ssr, statusCode, isString, htmlType, now)]

\* the renders tried: every ssrContext with a 200 response, and the nominal
\* and the empty-data context with each other status, body type and
\* content type
RenderInputs ==
  {<<ssr, 200, TRUE, TRUE>> : ssr \in SsrContexts}
    \cup {<<ssr, s, TRUE, TRUE>> : ssr \in {SsrOk, [SsrOk EXCEPT !.data = "empty"]},
                                    s \in Statuses}
    \cup {<<SsrOk, 200, FALSE, TRUE>>, <<SsrOk, 200, TRUE, FALSE>>}

\* ctx.render settles and render:response runs on its response
Render(r, in) ==
  /\ req[r].pc = "render"
  /\ \E q \in {Rendered(req[r], in[1], in[2], in[3], in[4], clock)} : Return(r, q)
  /\ UNCHANGED <<clock, store, written, probe>>

\* the render throws: the handler rejects, render:response is not called
\* and the request ends with the server's error response
RenderThrows(r) ==
  /\ req[r].pc = "render"
  /\ req' = [req EXCEPT ![r] = Idle]
  /\ sent' = [slot |-> r, q |-> [req[r] EXCEPT !.pc = "failed", !.rendered = TRUE],
              stashed |-> NoStash]
  /\ settled' = NoWrite
  /\ UNCHANGED <<clock, store, written, pending, probe>>

\* cachedAt is taken when the write completes
setItem_StampOnWrite(key, entry) ==
  [k \in DOMAIN store \cup {key} |->
     IF k = key THEN [entry EXCEPT !.cachedAt = clock] ELSE store[k]]

\* an entry already there is updated field by field, its cachedAt kept
setItem_Merge(key, entry) ==
  [k \in DOMAIN store \cup {key} |->
     IF k # key THEN store[k]
     ELSE IF key \in DOMAIN store THEN [entry EXCEPT !.cachedAt = store[key].cachedAt]
     ELSE entry]

\* storage.setItem(key, entry): the store after it
setItem(key, entry) ==
  [k \in DOMAIN store \cup {key} |-> IF k = key THEN entry ELSE store[k]]

\* a write settles and the lifecycle of its request ends
WriteResolves(w) ==
  /\ w \in pending
  /\ store' = setItem(w.key, w.entry)
  /\ written' = [k \in DOMAIN store' |->
                   IF k = w.key THEN [by |-> w.by, from |-> w.from] ELSE written[k]]
  /\ pending' = pending \ {w}
  /\ req' = [req EXCEPT ![w.req] = Idle]
  /\ sent' = NoSent
  /\ settled' = [w |-> w, ok |-> TRUE]
  /\ UNCHANGED <<clock, probe>>

\* the write rejects: .catch logs in dev and swallows
WriteRejects(w) ==
  /\ w \in pending
  /\ pending' = pending \ {w}
  /\ req' = [req EXCEPT ![w.req] = Idle]
  /\ sent' = NoSent
  /\ settled' = [w |-> w, ok |-> FALSE]
  /\ UNCHANGED <<clock, store, written, probe>>

\* time passes
Tick(t) ==
  /\ t > clock
  /\ clock' = t
  /\ sent' = NoSent
  /\ settled' = NoWrite
  /\ UNCHANGED <<store, written, req, pending, probe>>

Arrive(paths, builds) ==
  \E r \in Slots, path \in paths, b \in builds : RenderBefore(r, path, b)

\* requests handled one after the other: a request arrives when no other is
\* in the handler (writes of earlier requests may still be pending)
ArriveAlone(paths, builds) ==
  /\ \A r \in Slots : req[r].pc \in {"idle", "done"}
  /\ Arrive(paths, builds)

\* requests one at a time: a request arrives when the writes of the earlier
\* ones have settled
ArriveLast(paths, builds) ==
  /\ \A r \in Slots : req[r].pc = "idle"
  /\ Arrive(paths, builds)

Renders(inputs) == \E r \in Slots, in \in inputs : Render(r, in)

Settle ==
  \/ \E r \in Slots, rejected \in BOOLEAN : RenderBeforeResume(r, rejected)
  \/ \E r \in Slots : RenderThrows(r)
  \/ \E w \in pending : WriteResolves(w)
  \/ \E w \in pending : WriteRejects(w)

Ticks == \E t \in Instants : Tick(t)

\* the nominal render, and the render ending in an error response
NominalInputs == {<<SsrOk, 200, TRUE, TRUE>>, <<SsrOk, 400, TRUE, TRUE>>}

\* the nominal render alone
OkInputs == {<<SsrOk, 200, TRUE, TRUE>>}

\* one deployment, the ISR route, over time
Next ==
  \/ Arrive(DeployPaths, {"B1"})
  \/ Renders(NominalInputs)
  \/ Settle
  \/ Ticks

Spec == Init /\ [][Next]_vars

\* one deployment, every route and every render outcome, at one instant
OutcomeNext ==
  \/ ArriveAlone(ReqPaths, {"B1"})
  \/ Renders(RenderInputs)
  \/ Settle

OutcomeSpec == Init /\ [][OutcomeNext]_vars

\* two deployments sharing the store, the ISR route, over time
DeployNext ==
  \/ ArriveLast(DeployPaths, BuildIds)
  \/ Renders(OkInputs)
  \/ Settle
  \/ Ticks

DeploySpec == Init /\ [][DeployNext]_vars

-----------------------------------------------------------------------------
(* Key derivation on its own: the hooks' route path and key for the   *)
(* request paths of one route                                          *)

Segs    == {"a", "b"}
QTokens == {"q", "/", "?", PJ}

RECURSIVE SeqsUpTo(_, _)
SeqsUpTo(S, n) ==
  IF n = 0 THEN {<< >>}
  ELSE SeqsUpTo(S, n - 1) \cup {Append(t, x) : t \in SeqsUpTo(S, n - 1), x \in S}

RECURSIVE JoinSegs(_)
JoinSegs(segs) ==
  IF segs = << >> THEN << >> ELSE <<"/", Head(segs)>> \o JoinSegs(Tail(segs))

\* the canonical route paths: "/" and /s1/.../sn
Routes == {IF segs = << >> THEN <<"/">> ELSE JoinSegs(segs) : segs \in SeqsUpTo(Segs, MaxSegs)}

\* no query string, or "?" and what follows it
Queries == {<< >>} \cup {<<"?">> \o t : t \in SeqsUpTo(QTokens, MaxQuery)}

\* the URL of the payload of route R (joinURL(R, '_payload.json'))
PayloadUrl(R) == IF R = <<"/">> THEN <<"/", PJ>> ELSE R \o <<"/", PJ>>

\* the route path the hooks derive from a request path: render:before and
\* the first branch of render:response for a payload URL, the second branch
\* of render:response otherwise
GateRoutePath(path) ==
  IF PAYLOAD_URL_RE(path) THEN getRouteFromPayloadUrl(path) ELSE HtmlRoutePath(path)

Derive(kind, path) ==
  probe' = [probe EXCEPT !.kind = kind,
                         !.path = path,
                         !.matched = PAYLOAD_URL_RE(path),
                         !.routePath = GateRoutePath(path),
                         !.kinds = @ \cup {kind},
                         !.keys = @ \cup {getCacheKey("B1", GateRoutePath(path))}]

\* a data-only request for the route, with or without a query string
ProbePayload(query) ==
  /\ Derive("payload", PayloadUrl(probe.route) \o query)
  /\ UNCHANGED <<clock, store, written, req, sent, pending, settled>>

\* an HTML request for the route, with or without a trailing slash and a
\* query string
ProbeHtml(slash, query) ==
  /\ Derive("html", probe.route \o (IF slash THEN <<"/">> ELSE << >>) \o query)
  /\ UNCHANGED <<clock, store, written, req, sent, pending, settled>>

KeyInit ==
  /\ clock = 0
  /\ store = << >>
  /\ written = << >>
  /\ req = [r \in Slots |-> Idle]
  /\ sent = NoSent
  /\ pending = {}
  /\ settled = NoWrite
  /\ \E R \in Routes :
       probe = [route |-> R, kind |-> "none", path |-> << >>, matched |-> FALSE,
                routePath |-> << >>, kinds |-> {}, keys |-> {}]

KeyNext ==
  \/ \E query \in Queries : ProbePayload(query)
  \/ \E slash \in BOOLEAN, query \in Queries : ProbeHtml(slash, query)

KeySpec == KeyInit /\ [][KeyNext]_vars

-----------------------------------------------------------------------------
(* Arbitrary request paths: the first request a fresh deployment handles *)

PathTokens == {"/", "a", "b", "?", PJ}

\* event.path: any path that starts with "/"
AnyPaths == {<<"/">> \o t : t \in SeqsUpTo(PathTokens, MaxPath - 1)}

\* the request arrives at a deployment that has stored nothing yet and has
\* no other request in the handler
ArriveFirst(paths, builds) ==
  /\ store = << >>
  /\ pending = {}
  /\ \A r \in Slots : req[r].pc = "idle"
  /\ Arrive(paths, builds)

PathNext ==
  \/ ArriveFirst(AnyPaths, {"B1"})
  \/ Renders(NominalInputs)
  \/ Settle
  \/ Ticks

PathSpec == Init /\ [][PathNext]_vars

-----------------------------------------------------------------------------
(* Progress: every promise the handler waits for settles *)

\* storage.getItem of request r settles, one way or the other
LookupDone(r) == \E rejected \in BOOLEAN : RenderBeforeResume(r, rejected)

\* the render of request r ends with a response
RenderDone(r) == \E in \in NominalInputs : Render(r, in)

\* the storage.setItem of request r settles, one way or the other
WriteDone(r) ==
  \E w \in pending : w.req = r /\ (WriteResolves(w) \/ WriteRejects(w))

LiveNext ==
  \/ Arrive(DeployPaths, {"B1"})
  \/ \E r \in Slots : LookupDone(r)
  \/ \E r \in Slots : RenderDone(r)
  \/ \E r \in Slots : WriteDone(r)

\* the promise request r waits for settles
Proceeds(r) == LookupDone(r) \/ RenderDone(r) \/ WriteDone(r)

\* the store's promises settle and the render terminates
Fairness == \A r \in Slots : WF_vars(Proceeds(r))

LiveSpec == Init /\ [][LiveNext]_vars /\ Fairness

-----------------------------------------------------------------------------
(* Properties *)

\* request r's handler returns in this step
Returns(r) == sent' # NoSent /\ sent'.slot = r

\* how render:before has left for request r, after this step
LaAfter(r) == IF Returns(r) THEN sent'.q.la ELSE req'[r].la

\* request r's storage.getItem settles in this step
LookupSettles(r) == req[r].pc = "lookup" /\ (Returns(r) \/ req'[r].pc # "lookup")

\* C1. Build isolation: a data-only request handled by a process with build
\* id B2 is never answered by render:before from an entry that a process
\* with another build id wrote, whatever the age of the entry.
BuildIsolation ==
  [][\A r \in Slots :
       (LookupSettles(r) /\ LaAfter(r) = "hit")
         => /\ CacheKeyOf(req[r]) \in DOMAIN written
            /\ written[CacheKeyOf(req[r])].by = req[r].buildId]_vars

\* a request of B2 misses although B1 stored an entry for the route in this very instant
BuildIsolationWitness ==
  \E r \in Slots :
    /\ req[r].pc = "render" /\ req[r].la = "miss" /\ req[r].buildId = "B2"
    /\ CacheKeyOf(req[r]) \notin DOMAIN store
    /\ LET k == getCacheKey("B1", getRouteFromPayloadUrl(req[r].path))
       IN  k \in DOMAIN store /\ written[k].by = "B1" /\ store[k].cachedAt = clock

\* C2. Staleness boundary: when the lookup of a data-only request returns an
\* entry with the build id of the process, render:before serves it if and
\* only if its age, now - cachedAt, is at most 2 x TTL = 120 s; an entry it
\* does not serve leaves the response unset and the request goes on to render.
StalenessBoundary ==
  [][\A r \in Slots :
       (/\ LookupSettles(r)
        /\ LaAfter(r) # "error"
        /\ CacheKeyOf(req[r]) \in DOMAIN store
        /\ store[CacheKeyOf(req[r])].buildId = req[r].buildId)
         => LET cached == store[CacheKeyOf(req[r])]
            IN  /\ (LaAfter(r) = "hit")
                      <=> (clock - cached.cachedAt <= 2 * PAYLOAD_CACHE_TTL * 1000)
                /\ LaAfter(r) = "hit"
                      => Returns(r) /\ sent'.q.response.body = cached.body
                /\ LaAfter(r) # "hit"
                      => req'[r].pc = "render" /\ req'[r].response = NoResponse]_vars

\* an entry of age TTL + 1 s has just been served
StalenessBoundaryWitness ==
  /\ sent # NoSent
  /\ sent.q.la = "hit"
  /\ CacheKeyOf(sent.q) \in DOMAIN store
  /\ clock - store[CacheKeyOf(sent.q)].cachedAt = (PAYLOAD_CACHE_TTL + 1) * 1000
  /\ sent.q.response.body = store[CacheKeyOf(sent.q)].body

\* C3. No caching of errors: render:response on a response without status
\* or with a status >= 400 schedules no write, whatever the request.
NoCachingOfErrors ==
  [][(/\ sent' # NoSent
      /\ sent'.q.pc = "done"
      /\ (sent'.q.response.statusCode = 0 \/ sent'.q.response.statusCode >= 400))
       => (pending' = pending /\ store' = store)]_vars

\* an HTML response with status 400 for an ISR route, its payload stashed
NoCachingOfErrorsWitness ==
  /\ sent # NoSent
  /\ sent.q.pc = "done"
  /\ sent.q.response.statusCode = 400
  /\ isHtmlResponse(sent.q.response)
  /\ isISRRoute(sent.q.path)
  /\ sent.q.stash # NoStash

\* C4. HTML, then data: once the write of an HTML request for the ISR route
\* is stored (the stashed payload of a good render, status 200, under
\* buildId:R), a data-only request of the same deployment whose lookup
\* returns it within TTL = 60 s is answered with exactly that body and
\* status 200 and is not rendered; the one that finds it older than
\* 2 x TTL (125 s) is not answered from the cache and goes on to the render.
HtmlThenData ==
  [][/\ \A w \in pending' \ pending :
          w.from = "html"
            => /\ w.key = getCacheKey(w.by, <<"/", "a">>)
               /\ w.entry.statusCode = 200
               /\ w.entry.body = [kind |-> "payload", data |-> "d1", at |-> clock]
     /\ \A r \in Slots :
          (/\ LookupSettles(r)
           /\ LaAfter(r) # "error"
           /\ CacheKeyOf(req[r]) \in DOMAIN store
           /\ written[CacheKeyOf(req[r])] = [by |-> req[r].buildId, from |-> "html"])
            => LET cached == store[CacheKeyOf(req[r])]
                   age    == clock - cached.cachedAt
               IN  /\ age <= PAYLOAD_CACHE_TTL * 1000
                        => /\ Returns(r)
                           /\ sent'.q.response.body = cached.body
                           /\ sent'.q.response.statusCode = 200
                           /\ ~sent'.q.rendered
                   /\ age > 2 * PAYLOAD_CACHE_TTL * 1000
                        => /\ ~Returns(r)
                           /\ req'[r].pc = "render"
                           /\ req'[r].response = NoResponse]_vars

\* 125 s after the HTML request stored its entry, a data-only request has
\* missed and is about to be rendered
HtmlThenDataWitness ==
  \E r \in Slots :
    /\ clock = 125000
    /\ req[r].pc = "render" /\ req[r].la = "miss" /\ ~req[r].rendered
    /\ CacheKeyOf(req[r]) \in DOMAIN store
    /\ written[CacheKeyOf(req[r])] = [by |-> req[r].buildId, from |-> "html"]
    /\ store[CacheKeyOf(req[r])].cachedAt = 0

\* C5. Key derivation is canonical: every request path of route R (the
\* payload URL with or without a query string, the page path with or without
\* a trailing slash and a query string) gives the route path R, "/" for the
\* root, and so the one key buildId:R.
KeyDerivationCanonical ==
  probe.kind # "none"
    => /\ probe.routePath = probe.route
       /\ probe.keys = {getCacheKey("B1", probe.route)}
       /\ probe.matched = (probe.kind = "payload")

\* both kinds of request derived, the last one /a/b/ with a query string
KeyDerivationCanonicalWitness ==
  /\ probe.kinds = {"payload", "html"}
  /\ probe.kind = "html"
  /\ probe.route = <<"/", "a", "/", "b">>
  /\ Len(probe.path) > Len(probe.route) + 1
  /\ probe.path[Len(probe.route) + 1] = "/"

\* C6. Racing writers: a data-only request whose lookup finds nothing
\* misses and is rendered, and the write of its render goes under the key
\* it looked up, so two racing requests for one route write one key; every
\* change of the store puts one scheduled entry, whole, under its key; a
\* write that succeeds is what the key holds next, and a key once written
\* is never absent again.
RacingWriters ==
  [][/\ \A r \in Slots :
          (LookupSettles(r) /\ LaAfter(r) # "error" /\ CacheKeyOf(req[r]) \notin DOMAIN store)
            => ~Returns(r) /\ req'[r].pc = "render" /\ req'[r].la = "miss"
     /\ \A w \in pending' \ pending :
          (req[w.req].pc = "render" /\ PAYLOAD_URL_RE(req[w.req].path))
            => w.key = CacheKeyOf(req[w.req])
     /\ \A k \in DOMAIN store' :
          (k \notin DOMAIN store \/ store'[k] # store[k])
            => \E w \in pending \ pending' : w.key = k /\ store'[k] = w.entry
     /\ DOMAIN store \subseteq DOMAIN store'
     /\ (settled' # NoWrite /\ settled'.ok) => store'[settled'.w.key] = settled'.w.entry]_vars

\* the renders of two data-only requests for the uncached route have both
\* scheduled their write, with different entries
RacingWritersWitness ==
  \E w1, w2 \in pending :
    /\ w1.req # w2.req
    /\ w1.from = "payload" /\ w2.from = "payload"
    /\ w1.key = w2.key
    /\ w1.entry # w2.entry
    /\ w1.key \notin DOMAIN store

\* C7. Lookup failure is a miss: when storage.getItem rejects, render:before
\* leaves the response unset and the request goes on to the render; the
\* response it ends with is the one of its render, never an error of the
\* lookup.
LookupFailureIsMiss ==
  [][\A r \in Slots :
       /\ (LookupSettles(r) /\ LaAfter(r) = "error")
            => /\ ~Returns(r)
               /\ req'[r].pc = "render"
               /\ req'[r].response = NoResponse
               /\ ~req'[r].rendered
       /\ req[r].la = "error" => req[r].pc = "render"
       /\ (req[r].la = "error" /\ Returns(r))
            => /\ sent'.q.rendered
               /\ sent'.q.pc = "done"
                    => \E in \in RenderInputs :
                         sent'.q.response =
                           RenderedResponse(req[r].path, in[1], in[2], in[3], in[4], clock)]_vars

\* a request whose lookup failed has been answered with its render's 200 response
LookupFailureIsMissWitness ==
  /\ sent # NoSent
  /\ sent.q.la = "error"
  /\ sent.q.pc = "done"
  /\ sent.q.rendered
  /\ sent.q.response.statusCode = 200

\* C8. Writes are fire-and-forget: the step that schedules a write is the
\* step in which the handler returns the response, with the write still
\* pending; a write that settles changes no request in the handler and
\* sends nothing, and one that fails leaves the store as it was.
FireAndForget ==
  [][/\ \A w \in pending' \ pending :
          Returns(w.req) /\ sent'.q.pc = "done" /\ store' = store
     /\ settled' # NoWrite
          => /\ sent' = NoSent
             /\ \A r \in Slots : req[r].pc \in {"lookup", "render"} => req'[r] = req[r]
             /\ ~settled'.ok => store' = store /\ written' = written]_vars

\* a response has been returned and the write of its request is pending
FireAndForgetWitness ==
  /\ sent # NoSent
  /\ sent.q.pc = "done"
  /\ \E w \in pending : w.req = sent.slot /\ w.key \notin DOMAIN store

\* C9. No entry of the store comes from a render with an empty data
\* payload, from a render that ended in an error state or from a request
\* with server rendering disabled, whichever way the entry was created.
OnlyGoodRendersCached ==
  \A k \in DOMAIN store : store[k].body.data = "d1"

\* C10. Lifetime of the stashed payload: a request has none on its context
\* before its own render; the one it has when its handler returns was made
\* by app:rendered in its render, the only one of the request; and when
\* render:response writes it to the cache, it is the payload of that very
\* render and the context no longer holds it.
StashLifetime ==
  [][/\ \A r \in Slots :
          /\ req[r].stash = NoStash
          /\ (Returns(r) /\ sent'.q.stash # NoStash)
               => /\ req[r].pc = "render"
                  /\ ~req[r].rendered
                  /\ \E in \in RenderInputs : sent'.q.stash = AppRendered(in[1], clock)
     /\ \A w \in pending' \ pending :
          w.from = "html"
            => /\ Returns(w.req)
               /\ req[w.req].pc = "render"
               /\ sent'.q.stash = NoStash
               /\ \E in \in RenderInputs :
                    /\ AppRendered(in[1], clock) # NoStash
                    /\ w.entry.body = AppRendered(in[1], clock).body]_vars

\* an HTML request has returned, its stashed payload scheduled for the
\* cache and gone from the context
StashLifetimeWitness ==
  /\ sent # NoSent
  /\ ~PAYLOAD_URL_RE(sent.q.path)
  /\ sent.q.stash = NoStash
  /\ \E w \in pending : w.req = sent.slot /\ w.from = "html"

\* C11. A hit short-circuits the render: when the lookup of a data-only
\* request returns an entry with the current buildId that is at most
\* 2 x TTL old, render:before sets the response to the body, statusCode and
\* headers of that entry and the request is answered without a render; in
\* every other case render:before leaves the response unset and the render
\* follows; a data-only request is rendered only after its lookup ended.
HitShortCircuits ==
  [][\A r \in Slots :
       /\ LookupSettles(r)
            => LET cached == getItem(CacheKeyOf(req[r]))
                   valid  == /\ LaAfter(r) # "error"
                             /\ cached # NoEntry
                             /\ cached.buildId = req[r].buildId
                             /\ clock - cached.cachedAt <= 2 * PAYLOAD_CACHE_TTL * 1000
               IN  /\ valid => /\ Returns(r)
                               /\ sent'.q.pc = "done"
                               /\ sent'.q.response.body = cached.body
                               /\ sent'.q.response.statusCode = cached.statusCode
                               /\ sent'.q.response.headers = cached.headers
                               /\ ~sent'.q.rendered
                   /\ ~valid => /\ ~Returns(r)
                                /\ req'[r].pc = "render"
                                /\ req'[r].response = NoResponse
                                /\ ~req'[r].rendered
       /\ req[r].pc = "lookup" => ~req[r].rendered /\ req[r].response = NoResponse
       /\ (Returns(r) /\ sent'.q.rendered /\ PAYLOAD_URL_RE(sent'.q.path))
            => req[r].pc = "render" /\ req[r].la \in {"miss", "error"}]_vars

\* a data-only request has been answered, without a render, from an entry
\* exactly 2 x TTL old
HitShortCircuitsWitness ==
  /\ sent # NoSent
  /\ sent.q.la = "hit"
  /\ ~sent.q.rendered
  /\ clock = 120000
  /\ sent.q.response.body.at = 0
  /\ sent.q.response.headers = JsonHeaders

\* C12. render:before is a no-op for a request that is not data-only: when
\* the path, query included, does not match the _payload.json pattern, the
\* hook reads nothing from the store, leaves the response unset and leaves
\* the store, the scheduled writes and the request context as they were.
NotDataOnlyNoOp ==
  [][\A r \in Slots :
       /\ (req[r].pc = "idle" /\ req'[r].pc # "idle" /\ ~PAYLOAD_URL_RE(req'[r].path))
            => /\ req'[r] = [Idle EXCEPT !.pc = "render", !.path = req'[r].path,
                                         !.buildId = req'[r].buildId]
               /\ store' = store
               /\ pending' = pending
       /\ req[r].pc = "lookup" => PAYLOAD_URL_RE(req[r].path)
       /\ (Returns(r) /\ ~PAYLOAD_URL_RE(sent'.q.path)) => sent'.q.la = "none"]_vars

\* a request whose query string holds /_payload.json has passed
\* render:before and waits for its render, with no lookup made
NotDataOnlyNoOpWitness ==
  \E r \in Slots :
    /\ req[r].path = <<"/", "?", "/", PJ>>
    /\ req[r].pc = "render"
    /\ req[r].la = "none"
    /\ req[r].response = NoResponse

\* C13. HTML population rule: when the handler returns the response of a
\* request that is not data-only, render:response has scheduled a write
\* if and only if the response has a status below 400, is HTML, the route
\* has an isr or cache rule and a stashed payload is on the context; the
\* write is the only one, under buildId:R for the normalized path R, and
\* its entry has the body, statusCode and headers of the stashed payload,
\* the current buildId and cachedAt = now.  Otherwise nothing is scheduled.
HtmlPopulation ==
  [][\A r \in Slots :
       (Returns(r) /\ sent'.q.pc = "done" /\ ~PAYLOAD_URL_RE(sent'.q.path))
         => LET q        == sent'.q
                eligible == /\ q.response.statusCode # 0
                            /\ q.response.statusCode < 400
                            /\ q.response.headers = HtmlHeaders
                            /\ isISRRoute(q.path)
                            /\ sent'.stashed # NoStash
            IN  /\ eligible
                     => /\ q.path = <<"/", "a", "/", "?", "q">>
                        /\ pending' \ pending =
                             {[key   |-> <<q.buildId, ":", "/", "a">>,
                               entry |-> [body       |-> sent'.stashed.body,
                                          statusCode |-> sent'.stashed.statusCode,
                                          headers    |-> sent'.stashed.headers,
                                          cachedAt   |-> clock,
                                          buildId    |-> q.buildId],
                               by |-> q.buildId, from |-> "html", req |-> r]}
                /\ ~eligible => pending' = pending]_vars

\* the HTML request for /a/?q has returned and the stashed payload of its
\* render is scheduled for the store under B1:/a
HtmlPopulationWitness ==
  /\ sent # NoSent
  /\ sent.stashed # NoStash
  /\ sent.q.path = <<"/", "a", "/", "?", "q">>
  /\ \E w \in pending :
       /\ w.req = sent.slot
       /\ w.key = <<"B1", ":", "/", "a">>
       /\ w.entry.body = sent.stashed.body

\* C14. Data-only population rule: when the handler returns the response of
\* a data-only request and its status is below 400, render:response has
\* scheduled exactly one write if the body is a string, under
\* getCacheKey(route path of the request), with the response's body and
\* status, the fixed JSON content-type and x-powered-by headers, the
\* current buildId and cachedAt = now; and no write if the body is not a
\* string.
DataOnlyPopulation ==
  [][\A r \in Slots :
       (/\ Returns(r)
        /\ sent'.q.pc = "done"
        /\ PAYLOAD_URL_RE(sent'.q.path)
        /\ sent'.q.response.statusCode # 0
        /\ sent'.q.response.statusCode < 400)
         => LET q == sent'.q
            IN  /\ getRouteFromPayloadUrl(q.path) \in {<<"/", "a">>, <<"/", "b">>}
                /\ q.response.body.kind = "payload"
                     => pending' \ pending =
                          {[key   |-> getCacheKey(q.buildId, getRouteFromPayloadUrl(q.path)),
                            entry |-> [body       |-> q.response.body,
                                       statusCode |-> q.response.statusCode,
                                       headers    |-> JsonHeaders,
                                       cachedAt   |-> clock,
                                       buildId    |-> q.buildId],
                            by |-> q.buildId, from |-> "payload", req |-> r]}
                /\ q.response.body.kind # "payload" => pending' = pending]_vars

\* a data-only request has been rendered and answered, and the body of its
\* response is scheduled for the store under B1:/b
DataOnlyPopulationWitness ==
  /\ sent # NoSent
  /\ sent.q.path = <<"/", "b", "/", PJ>>
  /\ sent.q.rendered
  /\ \E w \in pending :
       /\ w.req = sent.slot
       /\ w.key = <<"B1", ":", "/", "b">>
       /\ w.entry.body = sent.q.response.body
       /\ w.entry.headers = JsonHeaders

\* C15. The payload cache applies to ISR-enabled routes only: a request
\* whose route has neither an isr nor a cache rule, HTML or data-only, is
\* never answered from the store and never has a write scheduled.
OnlyIsrRoutesCached ==
  (sent # NoSent /\ ~isISRRoute(sent.q.path))
    => /\ sent.q.la # "hit"
       /\ \A w \in pending : w.req # sent.slot

\* request r is in the handler
InHandler(r) == req[r].pc \in {"lookup", "render"}

\* the handler has just returned request r's response: the entry of a hit,
\* or the response of its own render
Answered(r) ==
  /\ sent # NoSent
  /\ sent.slot = r
  /\ sent.q.pc = "done"
  /\ sent.q.response # NoResponse
  /\ \/ sent.q.la = "hit" /\ ~sent.q.rendered
     \/ sent.q.la \in {"none", "miss", "error"} /\ sent.q.rendered

\* a write scheduled by request r has not settled
WritePending(r) == \E w \in pending : w.req = r

\* C16. Progress under cache failure: when the store's lookups and writes
\* each settle, by success or by failure, and the render terminates, every
\* request in the handler is eventually answered, with the entry of a valid
\* hit or with the response of its own render, and every scheduled write
\* eventually settles, also in the runs where every store operation fails.
ProgressUnderFailure ==
  \A r \in Slots :
    /\ InHandler(r) ~> Answered(r)
    /\ WritePending(r) ~> ~WritePending(r)

\* every lookup and every write so far has failed, and all requests have
\* been answered and all writes have settled
ProgressUnderFailureWitness ==
  /\ settled # NoWrite
  /\ ~settled.ok
  /\ settled.w.from = "payload"
  /\ store = << >>
  /\ pending = {}
  /\ \A r \in Slots : req[r].pc = "idle"

\* C17. End-to-end freshness deadline: the body a hit of render:before
\* serves was produced by a render that ended at most 2 x TTL = 120 s
\* before the hit, whatever requests came in between.
FreshnessDeadline ==
  (sent # NoSent /\ sent.q.la = "hit")
    => clock - sent.q.response.body.at <= 2 * PAYLOAD_CACHE_TTL * 1000

\* C18. A cache hit does not modify the store: the handling of a data-only
\* request that render:before answers from the store, render:response on
\* the synthesized response included, schedules no write.
HitLeavesStore ==
  [][\A r \in Slots :
       (Returns(r) /\ sent'.q.la = "hit") => pending' = pending]_vars

CachedAtNeverDecreases ==
  [][\A k \in DOMAIN store :
       k \in DOMAIN store' /\ store'[k].cachedAt >= store[k].cachedAt]_vars

\* C20, amended. cachedAt is taken when the write is scheduled, not when it
\* completes, and the key holds the entry of the write that completed
\* last: the cachedAt of a key decreases only in the step in which a write
\* scheduled earlier than the stored entry completes, and the key then
\* holds that write's entry.
LastWriteWins ==
  [][/\ \A w \in pending' \ pending : w.entry.cachedAt = clock
     /\ \A w \in pending : w.entry.cachedAt <= clock
     /\ (settled' # NoWrite /\ settled'.ok)
          => store'[settled'.w.key].cachedAt = settled'.w.entry.cachedAt
     /\ \A k \in DOMAIN store :
          /\ k \in DOMAIN store'
          /\ store'[k].cachedAt < store[k].cachedAt
               => /\ settled' # NoWrite
                  /\ settled'.ok
                  /\ settled'.w \in pending
                  /\ settled'.w.key = k
                  /\ store'[k] = settled'.w.entry]_vars

\* the write of the later render has completed and the write of the
\* earlier render, for the same key, is still pending
LastWriteWinsWitness ==
  \E w \in pending :
    /\ w.key \in DOMAIN store
    /\ w.entry.cachedAt < store[w.key].cachedAt
    /\ w.entry.cachedAt < clock

====
